---------------------------- MODULE Spec2Model ----------------------------
(***************************************************************************)
(* Model of src/load_csv_to_db.py: discovery of sales export files by      *)
(* name, parsing of their rows, transactional load into public.sales and   *)
(* archival of each loaded file into <data_dir>/processed.                 *)
(*                                                                         *)
(* Text (file names, CSV cells) is modelled by TLA+ strings, read one      *)
(* character at a time.  The sales table and the open transaction are bags *)
(* of 9-tuples in the column order of the INSERT statement.                *)
(***************************************************************************)
EXTENDS Integers, Sequences, FiniteSets, Bags, TLC

(***************************************************************************)
(* Bounds of the model.                                                    *)
(***************************************************************************)
\* largest number of entries the data directory holds when a run starts
MaxFiles == 3
\* largest number of runs of the program over one directory
MaxRuns == 2

(***************************************************************************)
(* Program constants.                                                      *)
(***************************************************************************)
\* execute_batch(cur, sql, rows, page_size=1000)
page_size == 1000
\* enumerate(reader, start=2)
line_start == 2

(***************************************************************************)
(* Text helpers.                                                           *)
(***************************************************************************)
Char(s, i) == SubSeq(s, i, i)

Digits == {"0", "1", "2", "3", "4", "5", "6", "7", "8", "9"}

IsDigit(c) == c \in Digits

DigitVal(c) ==
    CASE c = "0" -> 0 [] c = "1" -> 1 [] c = "2" -> 2 [] c = "3" -> 3
      [] c = "4" -> 4 [] c = "5" -> 5 [] c = "6" -> 6 [] c = "7" -> 7
      [] c = "8" -> 8 [] c = "9" -> 9

\* str.isspace() for the characters the model draws
IsSpace(c) == c \in {" ", "\t", "\n", "\r"}

Range(s) == {s[i] : i \in DOMAIN s}

Min(S) == CHOOSE m \in S : \A n \in S : m <= n

\* s[first..last] for the positions idx of the characters that are not
\* white space
StripTo(s, idx) ==
    IF idx = {} THEN ""
    ELSE SubSeq(s, Min(idx), CHOOSE m \in idx : \A n \in idx : n <= m)

\* str.strip(): drops the leading and the trailing white space
strip(s) == StripTo(s, {k \in 1..Len(s) : ~IsSpace(Char(s, k))})

\* s is a non-empty run of decimal digits
AllDigits(s) == Len(s) > 0 /\ \A k \in 1..Len(s) : IsDigit(Char(s, k))

\* the integer a run of decimal digits denotes (leading zeros allowed)
RECURSIVE DigitsValue(_)
DigitsValue(s) ==
    IF Len(s) = 0 THEN 0
    ELSE 10 * DigitsValue(SubSeq(s, 1, Len(s) - 1)) + DigitVal(Char(s, Len(s)))

(***************************************************************************)
(* FILENAME_PATTERN = re.compile(r"^(\d+)_(\d+)\.csv$"), used with match(). *)
(* Python's $ matches at the end of the string and also just before a      *)
(* line break that is the last character of the string.                    *)
(***************************************************************************)
\* position p (number of characters consumed) is where $ matches
AtDollar(name, p) ==
    \/ p = Len(name)
    \/ p = Len(name) - 1 /\ Char(name, Len(name)) = "\n"

\* (mutant) the extension is matched in either case, as with re.IGNORECASE
PatternSplitsIgnoreCase(name) ==
    {ab \in (1..Len(name)) \X (1..Len(name)) :
        /\ ab[1] + 2 <= ab[2]
        /\ ab[2] + 4 <= Len(name)
        /\ AllDigits(SubSeq(name, 1, ab[1]))
        /\ Char(name, ab[1] + 1) = "_"
        /\ AllDigits(SubSeq(name, ab[1] + 2, ab[2]))
        /\ SubSeq(name, ab[2] + 1, ab[2] + 4) \in {".csv", ".CSV"}
        /\ AtDollar(name, ab[2] + 4)}

\* the pairs <<a, b>>: group 1 is name[1..a], group 2 is name[a+2..b]
PatternSplits(name) ==
    {ab \in (1..Len(name)) \X (1..Len(name)) :
        /\ ab[1] + 2 <= ab[2]
        /\ ab[2] + 4 <= Len(name)
        /\ AllDigits(SubSeq(name, 1, ab[1]))
        /\ Char(name, ab[1] + 1) = "_"
        /\ AllDigits(SubSeq(name, ab[1] + 2, ab[2]))
        /\ SubSeq(name, ab[2] + 1, ab[2] + 4) = ".csv"
        /\ AtDollar(name, ab[2] + 4)}

\* the groups of the match that splits name at one of splits
Groups(name, splits) ==
    IF splits = {} THEN <<>>
    ELSE LET ab == CHOOSE x \in splits : TRUE
         IN  <<SubSeq(name, 1, ab[1]), SubSeq(name, ab[1] + 2, ab[2])>>

\* FILENAME_PATTERN.match(name): <<>> when there is no match (Python's
\* None), else the two groups
FILENAME_PATTERN(name) == Groups(name, PatternSplits(name))

\* int(match.group(k)) of a group of the pattern (a run of digits)
int_group(g) == DigitsValue(g)

(***************************************************************************)
(* Conversions of read_csv_file.  A cell handed out by csv.DictReader is   *)
(* <<text>>, or None when the row is shorter than the header.  A           *)
(* conversion yields <<value>>, or Raise when Python raises.               *)
(***************************************************************************)
None == <<>>

Raise == <<>>

Raised(result) == Len(result) = 0

\* the text t without its sign, and whether the sign is a minus
Unsigned(t) ==
    IF Len(t) > 0 /\ Char(t, 1) \in {"+", "-"}
    THEN [neg |-> Char(t, 1) = "-", text |-> SubSeq(t, 2, Len(t))]
    ELSE [neg |-> FALSE, text |-> t]

\* the integer of an optional sign and decimal digits
IntOf(u) ==
    IF ~AllDigits(u.text) THEN Raise
    ELSE <<IF u.neg THEN 0 - DigitsValue(u.text) ELSE DigitsValue(u.text)>>

\* int(cell): white space around, an optional sign, decimal digits.
\* (Cells with digit-group underscores are not drawn by the model.)
int(cell) ==
    IF Len(cell) = 0 THEN Raise ELSE IntOf(Unsigned(strip(cell[1])))

\* the decimal of digits with an optional fraction, dots being the
\* positions of "." in text
DecimalAt(neg, text, dots) ==
    LET dot == IF dots = {} THEN Len(text) + 1 ELSE Min(dots)
        ip == SubSeq(text, 1, dot - 1)
        fp == SubSeq(text, dot + 1, Len(text))
    IN  IF \/ Cardinality(dots) > 1
           \/ Len(ip) + Len(fp) = 0
           \/ \E k \in 1..Len(text) : k # dot /\ ~IsDigit(Char(text, k))
        THEN Raise
        ELSE <<[sign |-> IF neg THEN 1 ELSE 0,
                coefficient |-> DigitsValue(ip \o fp),
                exponent |-> 0 - Len(fp)]>>

DecimalOf(u) ==
    DecimalAt(u.neg, u.text, {k \in 1..Len(u.text) : Char(u.text, k) = "."})

\* Decimal(cell) for plain decimal notation: white space around, an
\* optional sign, digits with an optional fraction.  The value is Python's
\* exact triple (sign, coefficient, exponent): Decimal("0.00") keeps
\* exponent -2.  (Exponent notation, NaN and Infinity are not drawn.)
Decimal(cell) ==
    IF Len(cell) = 0 THEN Raise ELSE DecimalOf(Unsigned(strip(cell[1])))

\* cell.strip(): AttributeError when the cell is None
strip_cell(cell) == IF Len(cell) = 0 THEN Raise ELSE <<strip(cell[1])>>

(***************************************************************************)
(* csv.DictReader.  A file is [header |-> row, lines |-> sequence of rows],*)
(* a row being the sequence of its cells; a blank line is the empty row.   *)
(***************************************************************************)
\* reader.fieldnames or []
fieldnames(file) == file.header

\* the rows DictReader yields: it skips the rows that are []
reader_rows(file) == SelectSeq(file.lines, LAMBDA r : r # <<>>)

\* the cell of a row for the columns at positions at of the header
CellAt(row, at) ==
    IF \E k \in at : k > Len(row) THEN None
    ELSE <<row[CHOOSE m \in at : \A n \in at : n <= m]>>

\* row[col] of the dict DictReader builds: dict(zip(fieldnames, row)), the
\* last column of a repeated name winning, then None for every field name
\* beyond the end of a short row
dict_get(header, row, col) ==
    CellAt(row, {k \in 1..Len(header) : header[k] = col})

required_fields == {"doc_id", "item", "category", "amount", "price", "discount"}

\* rows.append((doc_id, item, category, amount, price, discount, shop_num,
\* cash_num, filepath.name)), or Raise when a conversion raised
make_row(text, amount, dec, shop_num, cash_num, name) ==
    IF \/ \E c \in DOMAIN text : Raised(text[c])
       \/ Raised(amount)
       \/ \E c \in DOMAIN dec : Raised(dec[c])
    THEN Raise
    ELSE <<<<text["doc_id"][1], text["item"][1], text["category"][1],
             amount[1], dec["price"][1], dec["discount"][1],
             shop_num, cash_num, name>>>>

\* (mutant) shop_num is read from the row when the file has such a column
convert_row_TrustsContent(header, row, shop_num, cash_num, name) ==
    make_row([c \in {"doc_id", "item", "category"} |->
                 strip_cell(dict_get(header, row, c))],
             int(dict_get(header, row, "amount")),
             [c \in {"price", "discount"} |->
                 Decimal(dict_get(header, row, c))],
             IF "shop_num" \in Range(header)
             THEN int(dict_get(header, row, "shop_num"))[1]
             ELSE shop_num,
             cash_num, name)

\* the body of the for loop of read_csv_file for one row: the 9-tuple
\* appended to rows, or Raise when a conversion raises
convert_row(header, row, shop_num, cash_num, name) ==
    make_row([c \in {"doc_id", "item", "category"} |->
                 strip_cell(dict_get(header, row, c))],
             int(dict_get(header, row, "amount")),
             [c \in {"price", "discount"} |->
                 Decimal(dict_get(header, row, c))],
             shop_num, cash_num, name)

\* (mutant) the failing row is numbered from 1, as by enumerate(reader, 1)
read_rows_FromOne(converted) ==
    IF \E k \in 1..Len(converted) : Raised(converted[k])
    THEN [raised |-> "row",
          line_num |-> Min({k \in 1..Len(converted) : Raised(converted[k])})]
    ELSE [raised |-> "no",
          rows |-> [k \in 1..Len(converted) |-> converted[k][1]]]

\* the outcome of the for loop, converted[k] being the outcome of the k-th
\* row the reader yields: the first row that raises ends the call with its
\* line_num of enumerate(reader, start=2)
read_rows(converted) ==
    IF \E k \in 1..Len(converted) : Raised(converted[k])
    THEN [raised |-> "row",
          line_num |-> Min({k \in 1..Len(converted) : Raised(converted[k])})
                       + line_start - 1]
    ELSE [raised |-> "no",
          rows |-> [k \in 1..Len(converted) |-> converted[k][1]]]

\* (mutant) the rows that do not convert are left out of the batch
convert_rows_SkipsBadRows(header, rd, shop_num, cash_num, name) ==
    read_rows(SelectSeq([k \in 1..Len(rd) |->
                            convert_row(header, rd[k], shop_num, cash_num,
                                        name)],
                        LAMBDA c : ~Raised(c)))

convert_rows(header, rd, shop_num, cash_num, name) ==
    read_rows([k \in 1..Len(rd) |->
                  convert_row(header, rd[k], shop_num, cash_num, name)])

\* read_csv_file(filepath, shop_num, cash_num):
\*   [raised |-> "schema"]                 a required column is missing
\*   [raised |-> "row", line_num |-> n]    the first row whose conversion
\*                                         raises, numbered by enumerate
\*   [raised |-> "no", rows |-> batch]     the batch, in row order
read_csv_file(name, file, shop_num, cash_num) ==
    IF ~(required_fields \subseteq Range(fieldnames(file)))
    THEN [raised |-> "schema"]
    ELSE convert_rows(fieldnames(file), reader_rows(file), shop_num, cash_num,
                      name)

(***************************************************************************)
(* The files a data directory may hold when a run starts.                  *)
(***************************************************************************)
GoodHeader == <<"doc_id", "item", "category", "amount", "price", "discount">>

TowelRow == <<"ABC123", "Towel", "textile", "2", "199.99", "0.00">>

\* the regular files a data directory of Spec is drawn from
FileNames ==
    {"3_2.csv", "07_10.csv", "9_1.csv", "5_5.csv", "4_4.csv", "notes.txt",
     "1_2.CSV"}

\* the regular files a data directory of SpecPages is drawn from: 12_1.csv
\* holds one row more than an insert page
PageFileNames == {"12_1.csv", "07_10.csv", "3_2.csv"}

\* the content of each of these files

Content(name) ==
    CASE name = "3_2.csv" ->
           [header |-> GoodHeader, lines |-> <<TowelRow>>]
      [] name = "07_10.csv" ->
           \* extra columns that contradict the name, padded cells, a blank line
           [header |-> <<"shop_num", "cash_num">> \o GoodHeader,
            lines |-> <<<<"99", "98", " D7 ", "Soap ", "home", " -1 ", "10", ".5">>,
                        <<>>,
                        <<"99", "98", "D8", "Mug", "kitchen", "+3", "7.", "0.25">>>>]
      [] name = "9_1.csv" ->
           \* no category column
           [header |-> <<"doc_id", "item", "amount", "price", "discount">>,
            lines |-> <<<<"ABC123", "Towel", "2", "199.99", "0.00">>>>]
      [] name = "5_5.csv" ->
           \* the second row does not convert
           [header |-> GoodHeader,
            lines |-> <<TowelRow,
                        <<"D9", "Lamp", "light", "x", "5.00", "0">>,
                        TowelRow>>]
      [] name = "12_1.csv" ->
           \* one row more than an insert page
           [header |-> GoodHeader,
            lines |-> [k \in 1..(page_size + 1) |-> TowelRow]]
      [] name = "4_4.csv" ->
           \* a header and no data row
           [header |-> GoodHeader, lines |-> <<>>]
      [] name = "21_1.csv" ->
           \* the first data row does not convert: amount is not an integer
           [header |-> GoodHeader,
            lines |-> <<<<"D1", "Pen", "office", "2.5", "1.50", "0">>,
                        TowelRow>>]
      [] name = "21_2.csv" ->
           \* a blank line, then the second data row does not convert: a
           \* decimal comma in price
           [header |-> GoodHeader,
            lines |-> <<TowelRow,
                        <<>>,
                        <<"D1", "Pen", "office", "1", "1,5", "0">>,
                        TowelRow>>]
      [] name = "21_3.csv" ->
           \* the third data row is short: no price, no discount
           [header |-> GoodHeader,
            lines |-> <<TowelRow, TowelRow, <<"D1", "Pen", "office", "1">>>>]
      [] name = "21_4.csv" ->
           \* the columns in another order, and one more
           [header |-> <<"discount", "price", "amount", "category", "item",
                         "doc_id", "note">>,
            lines |-> <<<<"0", "1.50", "4", "office", "Pen", " D2", "x">>>>]
      [] name = "22_1.csv" ->
           \* no doc_id column, and a first row whose amount does not convert
           [header |-> <<"item", "category", "amount", "price", "discount">>,
            lines |-> <<<<"Pen", "office", "x", "1.50", "0">>,
                        <<"Towel", "textile", "2", "199.99", "0.00">>>>]
      [] name = "22_2.csv" ->
           \* no discount column
           [header |-> <<"doc_id", "item", "category", "amount", "price">>,
            lines |-> <<<<"ABC123", "Towel", "textile", "2", "199.99">>>>]
      [] name = "22_3.csv" ->
           \* an empty file: fieldnames is None
           [header |-> <<>>, lines |-> <<>>]
      [] name = "22_4.csv" ->
           \* Amount for amount
           [header |-> <<"doc_id", "item", "category", "Amount", "price",
                         "discount">>,
            lines |-> <<TowelRow>>]
      [] name \in {"notes.txt", "1_2.CSV"} ->
           \* well-formed content under a name that is not a till export
           [header |-> GoodHeader, lines |-> <<TowelRow>>]

\* the regular files a data directory of SpecParse is drawn from: files
\* that parse, files with a row that does not convert, files that lack a
\* required column
ParseFileNames ==
    {"3_2.csv", "21_4.csv", "5_5.csv", "21_1.csv", "21_2.csv", "21_3.csv",
     "22_1.csv", "22_2.csv", "22_3.csv", "22_4.csv"}

\* the name of the processed area: processed_dir = data_dir / "processed"
PROCESSED == "processed"

\* rows already in public.sales when the run starts: none, or the rows of
\* an earlier load of 3_2.csv
PriorSales ==
    {EmptyBag,
     SetToBag({<<"ABC123", "Towel", "textile", 2,
                 [sign |-> 0, coefficient |-> 19999, exponent |-> -2],
                 [sign |-> 0, coefficient |-> 0, exponent |-> -2],
                 3, 2, "3_2.csv">>})}

(***************************************************************************)
(* State.                                                                  *)
(***************************************************************************)
VARIABLES
    dry_run,            \* args.dry_run
    conn,               \* "none" | "open" | "closed"
    data_dir,           \* names of the regular files directly in data_dir
    processed_exists,   \* data_dir/processed exists (a directory)
    processed,          \* names of the files in data_dir/processed
    sales,              \* committed rows of public.sales (a bag)
    txn,                \* rows inserted by the open transaction (a bag)
    files,              \* process_files: the list find_csv_files returned
    pos,                \* process_files: position of the for loop in files
    rows,               \* process_files: the batch of the current file
    page,               \* execute_batch: pages executed so far
    exc,                \* the exception in flight or last caught, <<>> if none
    out,                \* what print() has written, in order
    pc,                 \* position of the run
    sales0,             \* history: sales when the run started
    dir0,               \* history: data_dir when the run started
    exists0,            \* history: processed_exists when the run started
    environ,            \* os.environ after load_env(): the DB_* variables
    earlier,            \* history: the earlier runs over this directory
    killed              \* history: where the process was killed, "" if not

vars == <<dry_run, conn, data_dir, processed_exists, processed, sales, txn,
          files, pos, rows, page, exc, out, pc, sales0, dir0, exists0,
          environ, earlier, killed>>

BagOfSeq(s) == [r \in Range(s) |-> Cardinality({k \in DOMAIN s : s[k] = r})]

\* the connection parameters get_db_connection cannot do without
RequiredEnv == {"DB_NAME", "DB_USER", "DB_PASSWORD"}

\* the variables of the environment the model keeps
EnvNames == RequiredEnv \cup {"DB_PORT"}

\* an environment in which the required ones are set and DB_PORT is not
Configured == [v \in EnvNames |-> IF v \in RequiredEnv THEN <<"sales">> ELSE None]

\* os.getenv(name): None when the variable is not set, else <<value>>
getenv(name) == environ[name]

\* int(os.getenv("DB_PORT", "5432"))
port == int(IF getenv("DB_PORT") = None THEN <<"5432">> ELSE getenv("DB_PORT"))

\* (mutant) one parameter that is set is enough, as with any() for all()
any_set == \E v \in RequiredEnv : getenv(v) # None /\ getenv(v) # <<"">>

\* all([dbname, user, password]): None and the empty string are falsy
all_set == \A v \in RequiredEnv : getenv(v) # None /\ getenv(v) # <<"">>

\* get_db_connection() up to psycopg2.connect: the exception it raises, or
\* "connect" when it goes on to connect
get_db_connection ==
    IF Raised(port) THEN "ValueError"
    ELSE IF ~all_set THEN "RuntimeError"
    ELSE "connect"

\* the state when main() starts, the data directory drawn from names and
\* the environment from environments
StartIn(names, environments) ==
    /\ dry_run \in BOOLEAN
    /\ conn = "none"
    /\ data_dir \in {S \in SUBSET names : Cardinality(S) <= MaxFiles}
    /\ processed_exists \in BOOLEAN
    /\ processed = {}
    /\ sales \in PriorSales
    /\ txn = EmptyBag
    /\ files = <<>>
    /\ pos = 0
    /\ rows = <<>>
    /\ page = 0
    /\ exc = <<>>
    /\ out = <<>>
    /\ pc = "main"
    /\ sales0 = sales
    /\ dir0 = data_dir
    /\ exists0 = processed_exists
    /\ environ \in environments
    /\ earlier = <<>>
    /\ killed = ""

Start(names) == StartIn(names, {Configured})

Init == Start(FileNames)

InitPages == Start(PageFileNames)

(***************************************************************************)
(* main(): no connection in dry-run mode, else get_db_connection().        *)
(***************************************************************************)
Main ==
    /\ pc = "main"
    /\ dry_run \/ get_db_connection = "connect"
    /\ conn' = IF dry_run THEN "none" ELSE "open"
    /\ out' = out \o <<IF dry_run THEN <<"dry-run start">> ELSE <<"connected">>>>
    /\ pc' = "find"
    /\ UNCHANGED <<dry_run, data_dir, processed_exists, processed, sales, txn,
                   files, pos, rows, page, exc, sales0, dir0, exists0,
                   environ, earlier, killed>>

\* main(): get_db_connection() raises before it connects; the exception
\* leaves main() ahead of the try block
GetConnectionRaises ==
    /\ pc = "main"
    /\ ~dry_run
    /\ get_db_connection # "connect"
    /\ exc' = <<[type |-> get_db_connection, what |-> "config", file |-> ""]>>
    /\ pc' = "failed"
    /\ UNCHANGED <<dry_run, conn, data_dir, processed_exists, processed, sales,
                   txn, files, pos, rows, page, out, sales0, dir0, exists0,
                   environ, earlier, killed>>

\* main(): psycopg2.connect raises
ConnectRaises ==
    /\ pc = "main"
    /\ ~dry_run
    /\ get_db_connection = "connect"
    /\ exc' = <<[type |-> "OperationalError", what |-> "connect", file |-> ""]>>
    /\ pc' = "failed"
    /\ UNCHANGED <<dry_run, conn, data_dir, processed_exists, processed, sales,
                   txn, files, pos, rows, page, out, sales0, dir0, exists0,
                   environ, earlier, killed>>

(***************************************************************************)
(* find_csv_files(data_dir) over one listing order of the directory.       *)
(***************************************************************************)
\* entry.is_file(): the processed area is a directory
is_file(entry, dir) == entry \in dir

\* one pass of the loop of find_csv_files over entry, match being
\* FILENAME_PATTERN.match(entry.name) and rest the outcome for the entries
\* that follow: [result |-> triples, out |-> the notes printed]
find_step(entry, dir, match, rest) ==
    IF ~is_file(entry, dir) THEN rest
    ELSE IF match = <<>>
    THEN [result |-> rest.result, out |-> <<<<"skip", entry>>>> \o rest.out]
    ELSE [result |-> <<<<entry, int_group(match[1]), int_group(match[2])>>>>
                        \o rest.result,
          out |-> rest.out]

\* the loop of find_csv_files over the entries in listing order
RECURSIVE find_csv_files(_, _)
find_csv_files(listing, dir) ==
    IF listing = <<>> THEN [result |-> <<>>, out |-> <<>>]
    ELSE find_step(Head(listing), dir, FILENAME_PATTERN(Head(listing)),
                   find_csv_files(Tail(listing), dir))

\* the orders in which the entries can be listed
Orders(entries) ==
    {s \in [1..Cardinality(entries) -> entries] :
        \A a, b \in DOMAIN s : a # b => s[a] # s[b]}

\* data_dir.iterdir(): the entries, in an order the file system chooses
iterdir(dir, has_processed) ==
    Orders(dir \cup (IF has_processed THEN {PROCESSED} ELSE {}))

\* process_files after files = find_csv_files(data_dir): the return when
\* nothing was found, else the count of the files to process
Found(found) ==
    /\ files' = found.result
    /\ out' = out \o found.out \o
              <<IF found.result = <<>> THEN <<"nothing to process">>
                ELSE <<"found", Len(found.result)>>>>
    /\ pc' = IF found.result = <<>> THEN "return" ELSE "read"

Discover ==
    /\ pc = "find"
    /\ \E listing \in iterdir(data_dir, processed_exists) :
          \E found \in {find_csv_files(listing, data_dir)} : Found(found)
    /\ pos' = 1
    /\ UNCHANGED <<dry_run, conn, data_dir, processed_exists, processed, sales,
                   txn, rows, page, exc, sales0, dir0, exists0,
                   environ, earlier, killed>>

(***************************************************************************)
(* process_files: the body of the for loop.                                *)
(***************************************************************************)
\* the position after the current file: the next file, or the return
NextFile == IF pos + 1 > Len(files) THEN "return" ELSE "read"

\* the ValueError read_csv_file raises
ValueError(name, r) ==
    IF r.raised = "schema"
    THEN [type |-> "ValueError", what |-> "columns", file |-> name]
    ELSE [type |-> "ValueError", what |-> "row", file |-> name,
          line_num |-> r.line_num]

\* (mutant) the ValueError is caught like a load error and the loop goes on
ReadCaught(f, r) ==
    IF r.raised # "no"
    THEN /\ exc' = <<ValueError(f[1], r)>>
         /\ out' = out \o <<<<"processing", f[1], f[2], f[3]>>,
                             <<"error", f[1], "parse">>>>
         /\ pos' = pos + 1
         /\ pc' = NextFile
         /\ UNCHANGED rows
    ELSE /\ rows' = r.rows
         /\ exc' = exc
         /\ IF dry_run
            THEN /\ out' = out \o <<<<"processing", f[1], f[2], f[3]>>,
                                    <<"rows", Len(r.rows)>>, <<"dry-run">>>>
                 /\ pos' = pos + 1
                 /\ pc' = NextFile
            ELSE /\ out' = out \o <<<<"processing", f[1], f[2], f[3]>>,
                                    <<"rows", Len(r.rows)>>>>
                 /\ pos' = pos
                 /\ pc' = "insert"

\* (mutant) a file that lacks a required column is skipped with a note, a
\* bad row still ends the run
ReadSkipsSchemaError(f, r) ==
    IF r.raised = "schema"
    THEN /\ exc' = exc
         /\ out' = out \o <<<<"processing", f[1], f[2], f[3]>>,
                             <<"skip", f[1]>>>>
         /\ pos' = pos + 1
         /\ pc' = NextFile
         /\ UNCHANGED rows
    ELSE IF r.raised = "row"
    THEN /\ exc' = <<ValueError(f[1], r)>>
         /\ out' = out \o <<<<"processing", f[1], f[2], f[3]>>>>
         /\ pc' = "raised"
         /\ UNCHANGED <<rows, pos>>
    ELSE /\ rows' = r.rows
         /\ exc' = exc
         /\ IF dry_run
            THEN /\ out' = out \o <<<<"processing", f[1], f[2], f[3]>>,
                                    <<"rows", Len(r.rows)>>, <<"dry-run">>>>
                 /\ pos' = pos + 1
                 /\ pc' = NextFile
            ELSE /\ out' = out \o <<<<"processing", f[1], f[2], f[3]>>,
                                    <<"rows", Len(r.rows)>>>>
                 /\ pos' = pos
                 /\ pc' = "insert"

\* (mutant) the dry_run flag is not looked at
ReadIgnoresDryRun(f, r) ==
    IF r.raised # "no"
    THEN /\ exc' = <<ValueError(f[1], r)>>
         /\ out' = out \o <<<<"processing", f[1], f[2], f[3]>>>>
         /\ pc' = "raised"
         /\ UNCHANGED <<rows, pos>>
    ELSE /\ rows' = r.rows
         /\ exc' = exc
         /\ out' = out \o <<<<"processing", f[1], f[2], f[3]>>,
                             <<"rows", Len(r.rows)>>>>
         /\ pos' = pos
         /\ pc' = "insert"

\* (mutant) a file without data rows is passed over: no load, no move
ReadSkipsEmptyBatch(f, r) ==
    IF r.raised # "no"
    THEN /\ exc' = <<ValueError(f[1], r)>>
         /\ out' = out \o <<<<"processing", f[1], f[2], f[3]>>>>
         /\ pc' = "raised"
         /\ UNCHANGED <<rows, pos>>
    ELSE /\ rows' = r.rows
         /\ exc' = exc
         /\ IF dry_run
            THEN /\ out' = out \o <<<<"processing", f[1], f[2], f[3]>>,
                                    <<"rows", Len(r.rows)>>, <<"dry-run">>>>
                 /\ pos' = pos + 1
                 /\ pc' = NextFile
            ELSE /\ out' = out \o <<<<"processing", f[1], f[2], f[3]>>,
                                    <<"rows", Len(r.rows)>>>>
                 /\ pos' = IF r.rows = <<>> THEN pos + 1 ELSE pos
                 /\ pc' = IF r.rows = <<>> THEN NextFile ELSE "insert"

\* (mutant) every file but the last is parsed ahead of the loads: the loop
\* goes on to the next file once the batch is read
ReadParsesAhead(f, r) ==
    IF r.raised # "no"
    THEN /\ exc' = <<ValueError(f[1], r)>>
         /\ out' = out \o <<<<"processing", f[1], f[2], f[3]>>>>
         /\ pc' = "raised"
         /\ UNCHANGED <<rows, pos>>
    ELSE /\ rows' = r.rows
         /\ exc' = exc
         /\ IF dry_run
            THEN /\ out' = out \o <<<<"processing", f[1], f[2], f[3]>>,
                                    <<"rows", Len(r.rows)>>, <<"dry-run">>>>
                 /\ pos' = pos + 1
                 /\ pc' = NextFile
            ELSE /\ out' = out \o <<<<"processing", f[1], f[2], f[3]>>,
                                    <<"rows", Len(r.rows)>>>>
                 /\ pos' = IF pos < Len(files) THEN pos + 1 ELSE pos
                 /\ pc' = IF pos < Len(files) THEN "read" ELSE "insert"

\* process_files around rows = read_csv_file(...), r being the outcome of
\* the call for files[pos] = f.  A raised ValueError is not caught: the call
\* of process_files ends with the exception.
Read(f, r) ==
    IF r.raised # "no"
    THEN /\ exc' = <<ValueError(f[1], r)>>
         /\ out' = out \o <<<<"processing", f[1], f[2], f[3]>>>>
         /\ pc' = "raised"
         /\ UNCHANGED <<rows, pos>>
    ELSE /\ rows' = r.rows
         /\ exc' = exc
         /\ IF dry_run
            THEN /\ out' = out \o <<<<"processing", f[1], f[2], f[3]>>,
                                    <<"rows", Len(r.rows)>>, <<"dry-run">>>>
                 /\ pos' = pos + 1
                 /\ pc' = NextFile
            ELSE /\ out' = out \o <<<<"processing", f[1], f[2], f[3]>>,
                                    <<"rows", Len(r.rows)>>>>
                 /\ pos' = pos
                 /\ pc' = "insert"

\* every file of the model
AllFileNames == FileNames \cup PageFileNames \cup ParseFileNames

\* the triples (path, shop_num, cash_num) find_csv_files returns for them
Triples ==
    {find_csv_files(<<name>>, {name}).result[1] :
        name \in {n \in AllFileNames : FILENAME_PATTERN(n) # <<>>}}

\* read_csv_file(filepath, shop_num, cash_num) for each of these triples:
\* the content of a file does not change while the program runs
ParseOf == [f \in Triples |-> read_csv_file(f[1], Content(f[1]), f[2], f[3])]

ReadAt(f) == Read(f, ParseOf[f])

ReadFile ==
    /\ pc = "read"
    /\ ReadAt(files[pos])
    /\ page' = 0
    /\ UNCHANGED <<dry_run, conn, data_dir, processed_exists, processed, sales,
                   txn, files, sales0, dir0, exists0,
                   environ, earlier, killed>>

\* the k-th page of rows (pages are numbered from 1)
Page(k) ==
    SubSeq(rows, (k - 1) * page_size + 1,
           IF k * page_size < Len(rows) THEN k * page_size ELSE Len(rows))

PagesLeft == page * page_size < Len(rows)

\* (mutant) nothing is inserted for a file of which the table already
\* holds a row, as under a check of file_name before the load
ExecutePageSkipsLoadedFile ==
    /\ pc = "insert"
    /\ PagesLeft
    /\ txn' = IF \E r \in DOMAIN sales : r[9] = files[pos][1]
              THEN txn
              ELSE txn (+) BagOfSeq(Page(page + 1))
    /\ page' = page + 1
    /\ UNCHANGED <<dry_run, conn, data_dir, processed_exists, processed, sales,
                   files, pos, rows, exc, out, pc, sales0, dir0, exists0,
                   environ, earlier, killed>>

\* execute_batch, one page of INSERT statements that the store accepts
ExecutePage ==
    /\ pc = "insert"
    /\ PagesLeft
    /\ txn' = txn (+) BagOfSeq(Page(page + 1))
    /\ page' = page + 1
    /\ UNCHANGED <<dry_run, conn, data_dir, processed_exists, processed, sales,
                   files, pos, rows, exc, out, pc, sales0, dir0, exists0,
                   environ, earlier, killed>>

\* the records of a page on which the model lets the store fail
FailPoints(pg) == {1, Len(pg)}

\* the store rejects record k of the page pg: the records before it were
\* inserted by the open transaction
FailsIn(pg) ==
    \E k \in FailPoints(pg) : txn' = txn (+) BagOfSeq(SubSeq(pg, 1, k - 1))

\* execute_batch, one page in which the store rejects a record: the
\* exception leaves insert_rows and the "with conn" block
ExecutePageFails ==
    /\ pc = "insert"
    /\ PagesLeft
    /\ FailsIn(Page(page + 1))
    /\ exc' = <<[type |-> "DatabaseError", what |-> "insert",
                 file |-> files[pos][1]]>>
    /\ pc' = "rollback"
    /\ UNCHANGED <<dry_run, conn, data_dir, processed_exists, processed, sales,
                   files, pos, rows, page, out, sales0, dir0, exists0,
                   environ, earlier, killed>>

\* (mutant) a record the table already holds is not inserted again, as
\* under a unique key with ON CONFLICT DO NOTHING
CommitDeduplicates ==
    /\ pc = "insert"
    /\ ~PagesLeft
    /\ sales' = sales (+) [r \in {x \in DOMAIN txn : ~BagIn(x, sales)} |-> 1]
    /\ txn' = EmptyBag
    /\ pc' = "move"
    /\ UNCHANGED <<dry_run, conn, data_dir, processed_exists, processed, files,
                   pos, rows, page, exc, out, sales0, dir0, exists0,
                   environ, earlier, killed>>

\* "with conn" left normally: conn.commit()
Commit ==
    /\ pc = "insert"
    /\ ~PagesLeft
    /\ sales' = sales (+) txn
    /\ txn' = EmptyBag
    /\ pc' = "move"
    /\ UNCHANGED <<dry_run, conn, data_dir, processed_exists, processed, files,
                   pos, rows, page, exc, out, sales0, dir0, exists0,
                   environ, earlier, killed>>

\* (mutant) the rows of the transaction are in the table although the
\* commit has raised
CommitFailsKeepsRows ==
    /\ pc = "insert"
    /\ ~PagesLeft
    /\ sales' = sales (+) txn
    /\ txn' = EmptyBag
    /\ exc' = <<[type |-> "DatabaseError", what |-> "commit",
                 file |-> files[pos][1]]>>
    /\ pc' = "except"
    /\ UNCHANGED <<dry_run, conn, data_dir, processed_exists, processed,
                   files, pos, rows, page, out, sales0, dir0, exists0,
                   environ, earlier, killed>>

\* "with conn" left normally, and the store refuses the commit: the
\* transaction is gone and the exception reaches the except clause
CommitFails ==
    /\ pc = "insert"
    /\ ~PagesLeft
    /\ txn' = EmptyBag
    /\ exc' = <<[type |-> "DatabaseError", what |-> "commit",
                 file |-> files[pos][1]]>>
    /\ pc' = "except"
    /\ UNCHANGED <<dry_run, conn, data_dir, processed_exists, processed, sales,
                   files, pos, rows, page, out, sales0, dir0, exists0,
                   environ, earlier, killed>>

\* (mutant) the rows inserted before the failure are kept, as under autocommit
RollbackKeepsRows ==
    /\ pc = "rollback"
    /\ txn' = EmptyBag
    /\ sales' = sales (+) txn
    /\ pc' = "except"
    /\ UNCHANGED <<dry_run, conn, data_dir, processed_exists, processed, files,
                   pos, rows, page, exc, out, sales0, dir0, exists0,
                   environ, earlier, killed>>

\* "with conn" left by an exception: conn.rollback(), the exception goes on
Rollback ==
    /\ pc = "rollback"
    /\ txn' = EmptyBag
    /\ sales' = sales
    /\ pc' = "except"
    /\ UNCHANGED <<dry_run, conn, data_dir, processed_exists, processed, files,
                   pos, rows, page, exc, out, sales0, dir0, exists0,
                   environ, earlier, killed>>

\* (mutant) the file is copied into the processed area and stays in the
\* data directory
MoveFileCopies ==
    /\ pc = "move"
    /\ processed_exists' = TRUE
    /\ data_dir' = data_dir
    /\ processed' = processed \cup {files[pos][1]}
    /\ out' = out \o <<<<"moved", files[pos][1]>>>>
    /\ pos' = pos + 1
    /\ pc' = NextFile
    /\ UNCHANGED <<dry_run, conn, sales, txn, files, rows, page, exc, sales0,
                   dir0, exists0, environ, earlier, killed>>

\* move_file_to_processed: mkdir, rename, the note
MoveFile ==
    /\ pc = "move"
    /\ processed_exists' = TRUE
    /\ data_dir' = data_dir \ {files[pos][1]}
    /\ processed' = processed \cup {files[pos][1]}
    /\ out' = out \o <<<<"moved", files[pos][1]>>>>
    /\ pos' = pos + 1
    /\ pc' = NextFile
    /\ UNCHANGED <<dry_run, conn, sales, txn, files, rows, page, exc, sales0,
                   dir0, exists0, environ, earlier, killed>>

\* move_file_to_processed: processed_dir.mkdir raises
MkdirFails ==
    /\ pc = "move"
    /\ ~processed_exists
    /\ exc' = <<[type |-> "OSError", what |-> "mkdir", file |-> files[pos][1]]>>
    /\ pc' = "except"
    /\ UNCHANGED <<dry_run, conn, data_dir, processed_exists, processed, sales,
                   txn, files, pos, rows, page, out, sales0, dir0, exists0,
                   environ, earlier, killed>>

\* (mutant) the move is made inside the "with conn" block, so that its
\* failure rolls the load back
RenameFailsInsideWith ==
    /\ pc = "move"
    /\ processed_exists' = TRUE
    /\ sales' = sales (-) BagOfSeq(rows)
    /\ exc' = <<[type |-> "OSError", what |-> "rename", file |-> files[pos][1]]>>
    /\ pc' = "except"
    /\ UNCHANGED <<dry_run, conn, data_dir, processed, txn, files, pos, rows,
                   page, out, sales0, dir0, exists0, environ, earlier, killed>>

\* move_file_to_processed: filepath.rename raises after mkdir
RenameFails ==
    /\ pc = "move"
    /\ processed_exists' = TRUE
    /\ exc' = <<[type |-> "OSError", what |-> "rename", file |-> files[pos][1]]>>
    /\ pc' = "except"
    /\ UNCHANGED <<dry_run, conn, data_dir, processed, sales, txn, files, pos,
                   rows, page, out, sales0, dir0, exists0,
                   environ, earlier, killed>>

\* (mutant) the handler prints the error and raises it again
ExceptReraises ==
    /\ pc = "except"
    /\ out' = out \o <<<<"error", files[pos][1], exc[1].what>>>>
    /\ pos' = pos
    /\ pc' = "raised"
    /\ UNCHANGED <<dry_run, conn, data_dir, processed_exists, processed, sales,
                   txn, files, rows, page, exc, sales0, dir0, exists0,
                   environ, earlier, killed>>

\* (mutant) the file is moved whatever the outcome, as from a finally clause
ExceptMovesFile ==
    /\ pc = "except"
    /\ out' = out \o <<<<"error", files[pos][1], exc[1].what>>>>
    /\ data_dir' = data_dir \ {files[pos][1]}
    /\ processed' = processed \cup {files[pos][1]}
    /\ processed_exists' = TRUE
    /\ pos' = pos + 1
    /\ pc' = NextFile
    /\ UNCHANGED <<dry_run, conn, sales, txn, files, rows, page, exc, sales0,
                   dir0, exists0, environ, earlier, killed>>

\* (mutant) the handler prints the error and leaves the loop, as by break
ExceptLeavesLoop ==
    /\ pc = "except"
    /\ out' = out \o <<<<"error", files[pos][1], exc[1].what>>>>
    /\ pos' = pos + 1
    /\ pc' = "return"
    /\ UNCHANGED <<dry_run, conn, data_dir, processed_exists, processed, sales,
                   txn, files, rows, page, exc, sales0, dir0, exists0,
                   environ, earlier, killed>>

\* except Exception as exc: the error is printed, the loop goes on
Except ==
    /\ pc = "except"
    /\ out' = out \o <<<<"error", files[pos][1], exc[1].what>>>>
    /\ pos' = pos + 1
    /\ pc' = NextFile
    /\ UNCHANGED <<dry_run, conn, data_dir, processed_exists, processed, sales,
                   txn, files, rows, page, exc, sales0, dir0, exists0,
                   environ, earlier, killed>>

\* main() after process_files: finally conn.close(), then the normal exit
\* or the uncaught exception
Finish ==
    /\ pc \in {"return", "raised"}
    /\ conn' = IF dry_run THEN conn ELSE "closed"
    /\ out' = IF dry_run THEN out ELSE out \o <<<<"closed">>>>
    /\ pc' = IF pc = "return" THEN "exit" ELSE "failed"
    /\ UNCHANGED <<dry_run, data_dir, processed_exists, processed, sales, txn,
                   files, pos, rows, page, exc, sales0, dir0, exists0,
                   environ, earlier, killed>>

Next ==
    \/ Main
    \/ Discover
    \/ ReadFile
    \/ ExecutePage
    \/ ExecutePageFails
    \/ Commit
    \/ CommitFails
    \/ Rollback
    \/ MoveFile
    \/ MkdirFails
    \/ RenameFails
    \/ Except
    \/ Finish

Spec == Init /\ [][Next]_vars

\* the same program when every call it makes returns: a run that can take
\* a step takes one
LiveFileNames == {"3_2.csv", "07_10.csv", "4_4.csv", "5_5.csv"}

InitLive == Start(LiveFileNames)

SpecLive == InitLive /\ [][Next]_vars /\ WF_vars(Next)

(***************************************************************************)
(* Discovery alone, over directories of one file whose name is put         *)
(* together from well-formed and ill-formed parts.                         *)
(***************************************************************************)
NamePrefixes == {"", "a", "\n"}

NameRuns1 == {"3", "07", "10", "", "x"}

NameSeparators == {"_", "__", "-", ""}

NameRuns2 == {"2", "10", "", "1x"}

NameExtensions == {".csv", ".CSV", ".Csv", ".txt", "csv", ".cs", ""}

NameSuffixes == {"", "\n", "\n\n", " ", "x", "\r\n"}

NameCandidates ==
    {a \o b \o c \o d \o e \o f :
        a \in NamePrefixes, b \in NameRuns1, c \in NameSeparators,
        d \in NameRuns2, e \in NameExtensions, f \in NameSuffixes} \ {""}

InitNames ==
    /\ dry_run = TRUE
    /\ conn = "none"
    /\ data_dir \in {{name} : name \in NameCandidates}
    /\ processed_exists = FALSE
    /\ processed = {}
    /\ sales = EmptyBag
    /\ txn = EmptyBag
    /\ files = <<>>
    /\ pos = 0
    /\ rows = <<>>
    /\ page = 0
    /\ exc = <<>>
    /\ out = <<>>
    /\ pc = "main"
    /\ sales0 = sales
    /\ dir0 = data_dir
    /\ exists0 = processed_exists
    /\ environ = Configured
    /\ earlier = <<>>
    /\ killed = ""

NextNames ==
    \/ Main
    \/ Discover

SpecNames == InitNames /\ [][NextNames]_vars

(***************************************************************************)
(* The program under any environment: variables not set, empty or set.     *)
(***************************************************************************)
Environments ==
    {e \in [EnvNames -> {None, <<"">>, <<"sales">>, <<"5433">>}] :
        /\ \A v \in RequiredEnv : e[v] # <<"5433">>
        /\ e["DB_PORT"] # <<"">>}

\* the files a data directory of SpecConfig is drawn from
ConfigFileNames == {"3_2.csv", "notes.txt"}

InitConfig == StartIn(ConfigFileNames, Environments)

NextConfig ==
    \/ Next
    \/ GetConnectionRaises
    \/ ConnectRaises

SpecConfig == InitConfig /\ [][NextConfig]_vars

(***************************************************************************)
(* Runs that follow one another over the same directory and store: the     *)
(* process can be killed anywhere in process_files, and the operator       *)
(* starts the program again after a run has ended.                         *)
(***************************************************************************)
\* the positions of process_files at which the process can be killed
KillPoints == {"find", "read", "insert", "rollback", "move", "except"}

\* the process is killed: the server discards the open transaction; a kill
\* inside move_file_to_processed may fall between mkdir and rename
Kill ==
    /\ pc \in KillPoints
    /\ killed' = pc
    /\ pc' = "killed"
    /\ txn' = EmptyBag
    /\ conn' = IF conn = "open" THEN "closed" ELSE conn
    /\ processed_exists' \in
           IF pc = "move" THEN {processed_exists, TRUE} ELSE {processed_exists}
    /\ UNCHANGED <<dry_run, data_dir, processed, sales, files, pos, rows, page,
                   exc, out, sales0, dir0, exists0, environ, earlier>>

\* the names for which the run has printed a note with this tag
NotedNames(tag, whats) ==
    {out[k][2] : k \in {j \in DOMAIN out :
                          /\ out[j][1] = tag
                          /\ tag = "error" => out[j][3] \in whats}}

\* what is kept of a run that has ended: how it ended, the file it was at,
\* the files it found, moved and failed to move, the store it started from
Ended ==
    [pc |-> pc, killed |-> killed, dry_run |-> dry_run,
     at |-> IF pos \in DOMAIN files THEN files[pos][1] ELSE "",
     found |-> {files[k][1] : k \in DOMAIN files},
     moved |-> NotedNames("moved", {}),
     archive_failed |-> NotedNames("error", {"mkdir", "rename"}),
     sales0 |-> sales0]

\* main() is started again over the same directory, store and environment
Rerun ==
    /\ pc \in {"exit", "failed", "killed"}
    /\ Len(earlier) + 1 < MaxRuns
    /\ earlier' = Append(earlier, Ended)
    /\ dry_run' \in BOOLEAN
    /\ conn' = "none"
    /\ txn' = EmptyBag
    /\ files' = <<>>
    /\ pos' = 0
    /\ rows' = <<>>
    /\ page' = 0
    /\ exc' = <<>>
    /\ out' = <<>>
    /\ pc' = "main"
    /\ killed' = ""
    /\ sales0' = sales
    /\ dir0' = data_dir
    /\ exists0' = processed_exists
    /\ UNCHANGED <<data_dir, processed_exists, processed, sales, environ>>

\* the files a data directory of SpecRerun is drawn from
RerunFileNames == {"3_2.csv", "07_10.csv", "notes.txt"}

\* run 1 starts on an empty store
InitRerun == Start(RerunFileNames) /\ sales = EmptyBag

NextRerun ==
    \/ Next
    \/ Kill
    \/ Rerun

SpecRerun == InitRerun /\ [][NextRerun]_vars

\* the same program over directories of files that parse and files that
\* do not
InitParse == Start(ParseFileNames)

SpecParse == InitParse /\ [][Next]_vars

\* the same program over directories that may hold a batch of more than
\* one insert page
SpecPages == InitPages /\ [][Next]_vars

(***************************************************************************)
(* Vocabulary of the properties.                                           *)
(***************************************************************************)
\* the rows of bag b that carry file_name = name
RowsOf(b, name) == [r \in {x \in DOMAIN b : x[9] = name} |-> b[r]]

\* the rows this run has committed for the file name
LoadedBy(name) == RowsOf(sales (-) sales0, name)

NoRows(b) == DOMAIN b = {}

Dec(sign, coefficient, exponent) ==
    [sign |-> sign, coefficient |-> coefficient, exponent |-> exponent]

\* the rows each file of the model stands for, written out by hand from its
\* content and its name; no row for a file that does not parse
ExpectedRows(name) ==
    CASE name = "3_2.csv" ->
           SetToBag({<<"ABC123", "Towel", "textile", 2, Dec(0, 19999, -2),
                       Dec(0, 0, -2), 3, 2, "3_2.csv">>})
      [] name = "07_10.csv" ->
           SetToBag({<<"D7", "Soap", "home", -1, Dec(0, 10, 0), Dec(0, 5, -1),
                       7, 10, "07_10.csv">>,
                     <<"D8", "Mug", "kitchen", 3, Dec(0, 7, 0), Dec(0, 25, -2),
                       7, 10, "07_10.csv">>})
      [] name = "12_1.csv" ->
           [r \in {<<"ABC123", "Towel", "textile", 2, Dec(0, 19999, -2),
                     Dec(0, 0, -2), 12, 1, "12_1.csv">>} |-> page_size + 1]
      [] OTHER -> EmptyBag

\* the names of the model that the naming convention accepts, by hand
AcceptedNames == {"3_2.csv", "07_10.csv", "9_1.csv", "5_5.csv", "4_4.csv",
                  "12_1.csv"}

\* the files whose content does not parse: a missing column, a bad row
UnparsableNames == {"9_1.csv", "5_5.csv"}

\* print() has written the note <<tag, name, ...>>
Noted(tag, name) ==
    \E k \in DOMAIN out : out[k][1] = tag /\ out[k][2] = name

\* print() has written the error of kind what for the file name
ErrorNoted(name, whats) ==
    \E k \in DOMAIN out :
        out[k][1] = "error" /\ out[k][2] = name /\ out[k][3] \in whats

LoadErrors == {"insert", "commit"}

ArchiveErrors == {"mkdir", "rename"}

\* the exception of kind what is in flight for the current file
InFlight(whats) ==
    /\ pc \in {"rollback", "except"}
    /\ exc[1].what \in whats

\* the load of the file name was attempted and failed
LoadFailed(name) ==
    \/ ErrorNoted(name, LoadErrors)
    \/ InFlight(LoadErrors) /\ files[pos][1] = name

\* the position of the file name in files, 0 if it is not there
IndexOf(name) ==
    IF \E k \in DOMAIN files : files[k][1] = name
    THEN CHOOSE k \in DOMAIN files : files[k][1] = name
    ELSE 0

\* nothing of this run has touched the file: not parsed, loaded or moved
Untouched(name) ==
    /\ name \in data_dir
    /\ name \notin processed
    /\ NoRows(LoadedBy(name))
    /\ ~Noted("processing", name)
    /\ ~Noted("moved", name)
    /\ ~Noted("error", name)

(***************************************************************************)
(* C1.  Loading is atomic per file: at every point of a non-dry run the    *)
(* rows the run has committed for a file are either none or the whole      *)
(* batch of the file, never a strict non-empty part of it; and once the    *)
(* insertion of any record of the batch has failed (the first or the last  *)
(* record of a page, on the first page or a later one) the attempt has     *)
(* committed no row of the file.                                           *)
(***************************************************************************)
C1_AtomicPerFile ==
    \A name \in dir0 :
        /\ \/ NoRows(LoadedBy(name))
           \/ LoadedBy(name) = ExpectedRows(name)
        /\ LoadFailed(name) => NoRows(LoadedBy(name))

\* the last record of the second page of a 1001-row batch was rejected
\* after the first page went in, and the transaction has been rolled back
C1_Witness ==
    /\ pc = "except"
    /\ exc[1].what = "insert"
    /\ files[pos][1] = "12_1.csv"
    /\ Len(rows) > page_size
    /\ page = 1
    /\ txn = EmptyBag

(***************************************************************************)
(* C2.  Load-failure isolation: a failed load (a rejected insert or        *)
(* commit) is caught and reported, and the next thing the run does is      *)
(* process the next discovered file (or return normally after the last     *)
(* one); the run never ends with a load error as its uncaught exception,   *)
(* and a run that returns has processed every discovered file.             *)
(***************************************************************************)
\* what follows the k-th note, the error of the m-th file: the processing
\* of file m + 1, or the normal return when m is the last file
GoesOnAfter(k, m) ==
    IF m < Len(files)
    THEN IF k < Len(out)
         THEN out[k + 1][1] = "processing" /\ out[k + 1][2] = files[m + 1][1]
         ELSE pc = "read" /\ pos = m + 1
    ELSE IF k < Len(out)
         THEN out[k + 1][1] = "closed" /\ pc = "exit"
         ELSE pc = "return"

C2_LoadFailureIsolated ==
    /\ \A k \in DOMAIN out :
          (out[k][1] = "error" /\ out[k][3] \in LoadErrors)
              => GoesOnAfter(k, IndexOf(out[k][2]))
    /\ pc \in {"raised", "failed"} => exc[1].type = "ValueError"
    /\ (pc = "except" /\ exc[1].what \in LoadErrors)
          => ~ErrorNoted(files[pos][1], LoadErrors)
    /\ \A m \in DOMAIN files :
          (m < pos /\ ~dry_run) =>
              \/ Noted("moved", files[m][1])
              \/ Noted("error", files[m][1])
    /\ pc \in {"return", "exit"} =>
          \A m \in DOMAIN files : Noted("processing", files[m][1])

\* a file was archived after the load of an earlier file had failed
C2_Witness ==
    \E a, b \in DOMAIN files :
        /\ a < b
        /\ ErrorNoted(files[a][1], LoadErrors)
        /\ Noted("moved", files[b][1])

(***************************************************************************)
(* C3.  Parse-failure propagation: once the run has reached a file that    *)
(* does not parse (a missing required column, a row that does not          *)
(* convert), process_files has ended with that ValueError, in dry-run mode *)
(* as in normal mode: nothing is printed or done after the note that       *)
(* announces the file except closing the connection, and every file later  *)
(* in the processing order is neither parsed, loaded nor archived.         *)
(***************************************************************************)
\* the last thing process_files printed is the announcement of file name
LastNoteIsProcessing(name) ==
    LET n == IF out[Len(out)][1] = "closed" THEN Len(out) - 1 ELSE Len(out)
    IN  out[n][1] = "processing" /\ out[n][2] = name

C3_ParseFailurePropagates ==
    \A m \in DOMAIN files :
        (files[m][1] \in UnparsableNames /\ Noted("processing", files[m][1]))
        => /\ pc \in {"raised", "failed"}
           /\ pos = m
           /\ exc[1].type = "ValueError"
           /\ exc[1].file = files[m][1]
           /\ LastNoteIsProcessing(files[m][1])
           /\ \A j \in DOMAIN files : j > m => Untouched(files[j][1])

\* the run has ended on the bad row of the second of three files
C3_Witness ==
    /\ pc = "failed"
    /\ exc[1].what = "row"
    /\ pos = 2
    /\ Len(files) = 3

(***************************************************************************)
(* C4 as claimed.  When an accepted file lacks a required column, at the   *)
(* end of the run no other file of the directory has been loaded or moved, *)
(* whatever the listing order.                                             *)
(***************************************************************************)
C4_NoOtherFileProcessed ==
    (pc = "failed" /\ exc[1].what = "columns")
    => \A name \in dir0 \ {exc[1].file} :
          /\ name \in data_dir
          /\ name \notin processed
          /\ NoRows(LoadedBy(name))

(***************************************************************************)
(* C4 as amended.  When the run reaches 9_1.csv, which lacks the category  *)
(* column, it is aborted there with the missing-columns error: no file     *)
(* that the directory listing put after 9_1.csv has been loaded or moved,  *)
(* and every file it put before 9_1.csv has been processed.                *)
(***************************************************************************)
C4_AbortsAtMissingColumn ==
    \A m \in DOMAIN files :
        (files[m][1] = "9_1.csv" /\ Noted("processing", "9_1.csv"))
        => /\ pc \in {"raised", "failed"}
           /\ exc[1].what = "columns"
           /\ exc[1].file = "9_1.csv"
           /\ \A j \in DOMAIN files :
                 /\ j > m => /\ files[j][1] \in data_dir
                             /\ files[j][1] \notin processed
                             /\ NoRows(LoadedBy(files[j][1]))
                 /\ j < m => Noted("processing", files[j][1])

\* 9_1.csv aborted the run after an earlier file had been loaded and moved
\* and before a later one was touched
C4_Witness ==
    /\ pc = "failed"
    /\ exc[1].what = "columns"
    /\ pos = 2
    /\ Len(files) = 3
    /\ Noted("moved", files[1][1])
    /\ ~NoRows(LoadedBy(files[1][1]))

(***************************************************************************)
(* C5.  Archive only after commit: the move is reached only with the       *)
(* file's transaction committed; every file this run has moved into the    *)
(* processed area has its whole batch committed, and a file whose load     *)
(* failed stays in the data directory.                                     *)
(***************************************************************************)
C5_ArchiveOnlyAfterCommit ==
    /\ pc = "move" =>
          /\ txn = EmptyBag
          /\ LoadedBy(files[pos][1]) = ExpectedRows(files[pos][1])
    /\ \A name \in processed :
          /\ name \in dir0 \ data_dir
          /\ LoadedBy(name) = ExpectedRows(name)
          /\ ~LoadFailed(name)
    /\ \A name \in dir0 :
          LoadFailed(name) => name \in data_dir /\ name \notin processed

\* one file was moved with its rows committed, the load of another failed
C5_Witness ==
    \E a, b \in dir0 :
        /\ a \in processed
        /\ ~NoRows(LoadedBy(a))
        /\ ErrorNoted(b, LoadErrors)

(***************************************************************************)
(* C6.  An archive failure is not fatal and does not undo the load: when   *)
(* mkdir or rename fails after the commit, the rows of the file stay       *)
(* committed, the file stays in the data directory, the failure is         *)
(* printed and the run goes on with the next discovered file.              *)
(***************************************************************************)
\* the commit of the file went through and its move failed
StaysLoadedInPlace(name) ==
    /\ LoadedBy(name) = ExpectedRows(name)
    /\ name \in data_dir
    /\ name \notin processed

C6_ArchiveFailureNotFatal ==
    /\ \A k \in DOMAIN out :
          (out[k][1] = "error" /\ out[k][3] \in ArchiveErrors)
              => /\ StaysLoadedInPlace(out[k][2])
                 /\ GoesOnAfter(k, IndexOf(out[k][2]))
    /\ (pc = "except" /\ exc[1].what \in ArchiveErrors)
          => StaysLoadedInPlace(files[pos][1])

\* the move of a file with rows failed and the run went on to the next file
C6_Witness ==
    \E a, b \in DOMAIN files :
        /\ b = a + 1
        /\ ErrorNoted(files[a][1], {"rename"})
        /\ ~NoRows(LoadedBy(files[a][1]))
        /\ Noted("processing", files[b][1])

(***************************************************************************)
(* C7.  A dry run has no side effect: whatever the directory holds and     *)
(* however the parsing of its files ends, the store, the open transaction, *)
(* the data directory and the processed area are as they were when the run *)
(* started, and no connection is made.                                     *)
(***************************************************************************)
C7_DryRunHasNoSideEffect ==
    dry_run =>
        /\ sales = sales0
        /\ txn = EmptyBag
        /\ data_dir = dir0
        /\ processed = {}
        /\ processed_exists = exists0
        /\ conn = "none"

\* a dry run that parsed one file and ended on the parse failure of the next
C7_Witness ==
    /\ dry_run
    /\ pc = "failed"
    /\ pos = 2
    /\ ~exists0

(***************************************************************************)
(* C8.  For every file whose load was committed, the rows this run has     *)
(* persisted for it are exactly the rows of the file: one per data row,    *)
(* the text cells trimmed, amount an integer, price and discount exact     *)
(* decimals, shop_num and cash_num the integers of the file name and       *)
(* file_name the name, whatever columns the content has.                   *)
(***************************************************************************)
\* the transaction of the file has been committed by this run
Committed(name) ==
    \/ Noted("moved", name)
    \/ ErrorNoted(name, ArchiveErrors)
    \/ /\ \/ pc = "move"
          \/ pc = "except" /\ exc[1].what \in ArchiveErrors
          \/ pc = "killed" /\ killed = "move"
          \/ pc = "killed" /\ killed = "except" /\ exc[1].what \in ArchiveErrors
       /\ files[pos][1] = name

C8_PersistedAreParsed ==
    /\ \A name \in dir0 : Committed(name) => LoadedBy(name) = ExpectedRows(name)
    /\ \A r \in DOMAIN (sales (-) sales0) : r[9] \in dir0 \cap AcceptedNames

\* 07_10.csv, whose content has shop_num and cash_num columns of its own,
\* was loaded and archived
C8_Witness == Noted("moved", "07_10.csv")

(***************************************************************************)
(* C9.  Rejected names are skipped and untouched: a file whose name is not *)
(* <digits>_<digits>.csv is never parsed, loaded or moved, stays in the    *)
(* data directory, is left out of files and of the printed count, and does *)
(* not end the run.                                                        *)
(***************************************************************************)
\* the names of the model that the naming convention rejects, by hand
RejectedNames == {"notes.txt", "1_2.CSV"}

\* find_csv_files has returned: process_files has printed its first note
Discovered ==
    \E k \in DOMAIN out : out[k][1] \in {"nothing to process", "found"}

C9_RejectedSkipped ==
    /\ \A name \in dir0 \cap RejectedNames :
          /\ Untouched(name)
          /\ IndexOf(name) = 0
          /\ Discovered => Noted("skip", name)
    /\ Discovered =>
          /\ Len(files) = Cardinality(dir0 \ RejectedNames)
          /\ IF dir0 \subseteq RejectedNames
             THEN out[Len(out)][1] \in {"nothing to process", "closed"}
             ELSE \E k \in DOMAIN out :
                     /\ out[k][1] = "found"
                     /\ out[k][2] = Cardinality(dir0 \ RejectedNames)
    /\ pc \in {"raised", "failed"} => exc[1].file \notin RejectedNames

\* a run that returned normally archived a file and left 1_2.CSV alone
C9_Witness ==
    /\ pc = "exit"
    /\ "1_2.CSV" \in dir0
    /\ processed # {}

(***************************************************************************)
(* C10 as claimed.  find_csv_files accepts a name exactly when the whole   *)
(* name is a non-empty run of digits, one underscore, a non-empty run of   *)
(* digits and the suffix .csv, with nothing before, between or after; it   *)
(* returns the integers of the two runs for an accepted name and reports   *)
(* every other name as no match.                                           *)
(***************************************************************************)
\* the ways to read the whole name as <digits>_<digits>.csv
ExactSplits(name) ==
    {ab \in (1..Len(name)) \X (1..Len(name)) :
        /\ ab[1] + 2 <= ab[2]
        /\ ab[2] + 4 = Len(name)
        /\ AllDigits(SubSeq(name, 1, ab[1]))
        /\ Char(name, ab[1] + 1) = "_"
        /\ AllDigits(SubSeq(name, ab[1] + 2, ab[2]))
        /\ SubSeq(name, ab[2] + 1, ab[2] + 4) = ".csv"}

\* the integers of the digit runs the names are put together from, by hand
RunValue(run) ==
    CASE run = "3" -> 3
      [] run = "07" -> 7
      [] run = "10" -> 10
      [] run = "2" -> 2

C10_ExactNameClassification ==
    Discovered =>
        \A name \in dir0 :
            IF ExactSplits(name) = {}
            THEN IndexOf(name) = 0 /\ Noted("skip", name)
            ELSE /\ IndexOf(name) > 0
                 /\ ~Noted("skip", name)
                 /\ \E ab \in ExactSplits(name) :
                       files[IndexOf(name)] =
                           <<name,
                             RunValue(SubSeq(name, 1, ab[1])),
                             RunValue(SubSeq(name, ab[1] + 2, ab[2]))>>

(***************************************************************************)
(* C11.  The idempotency gap: when the run before this one was killed      *)
(* after the transaction of a file had committed and before the file was   *)
(* moved, this run finds the file again, nothing rejects or drops its      *)
(* records, and once this run has committed the file the store holds every *)
(* record of the file twice; a normal run that returns without an error    *)
(* for the file has loaded it.                                             *)
(***************************************************************************)
\* the run before this one
LastRun == earlier[Len(earlier)]

\* the run before this one was killed between the commit and the move of
\* the file name
KilledBeforeMove(name) ==
    /\ earlier # <<>>
    /\ LastRun.killed = "move"
    /\ LastRun.at = name

\* the rows of the file name committed since the run before this one started
LoadedSinceLastRun(name) == RowsOf(sales (-) LastRun.sales0, name)

Twice(b) == b (+) b

C11_CrashThenRerunDuplicates ==
    \A name \in AcceptedNames :
        KilledBeforeMove(name) =>
            /\ name \in dir0
            /\ Discovered => IndexOf(name) > 0
            /\ IF Committed(name)
               THEN LoadedSinceLastRun(name) = Twice(ExpectedRows(name))
               ELSE LoadedSinceLastRun(name) = ExpectedRows(name)
            /\ (pc = "exit" /\ ~dry_run /\ ~Noted("error", name))
                  => Noted("moved", name)

\* 07_10.csv was committed by a run killed before the move, and this run
\* has loaded and moved it: its two records are in the store twice
C11_Witness ==
    /\ KilledBeforeMove("07_10.csv")
    /\ Noted("moved", "07_10.csv")
    /\ \A r \in DOMAIN ExpectedRows("07_10.csv") : CopiesIn(r, sales) = 2

(***************************************************************************)
(* C12 as claimed.  Whenever DB_NAME, DB_USER or DB_PASSWORD is missing,   *)
(* the run fails at startup: it never gets past the start of main(), and   *)
(* no file has been discovered, parsed, loaded or moved.                   *)
(***************************************************************************)
\* a required connection parameter is not set, or is set to nothing
Missing == \E v \in RequiredEnv : environ[v] \in {None, <<"">>}

\* the run is at its start or has failed there, and has touched no file
FailsAtStartup ==
    /\ pc \in {"main", "failed"}
    /\ files = <<>>
    /\ out = <<>>
    /\ conn = "none"
    /\ data_dir = dir0
    /\ processed = {}
    /\ sales = sales0
    /\ txn = EmptyBag
    /\ pc = "failed" => exc[1].type \in {"RuntimeError", "ValueError"}

C12_MissingConfigAlwaysFatal == Missing => FailsAtStartup

(***************************************************************************)
(* C12 as amended.  In a run that is not a dry run, whenever DB_NAME,      *)
(* DB_USER or DB_PASSWORD is missing the run fails at startup, and no file *)
(* has been discovered, parsed, loaded or moved.                           *)
(***************************************************************************)
C12_MissingConfigFatal == (Missing /\ ~dry_run) => FailsAtStartup

\* a normal run over a directory with a sales file has failed for want of
\* DB_PASSWORD alone
C12_Witness ==
    /\ pc = "failed"
    /\ ~dry_run
    /\ exc[1].type = "RuntimeError"
    /\ environ["DB_PASSWORD"] = None
    /\ environ["DB_NAME"] # None
    /\ environ["DB_USER"] # None
    /\ "3_2.csv" \in data_dir

(***************************************************************************)
(* C13 as claimed.  A row-level conversion failure reports the position of *)
(* the failing row counted from 1 at the first data row, the header left   *)
(* out, together with the name of the file.                                *)
(***************************************************************************)
\* the files with a row that does not convert, and the position of their
\* first such row among the data rows (blank lines left out), by hand
BadRowNames == {"5_5.csv", "21_1.csv", "21_2.csv", "21_3.csv"}

FailingRow(name) ==
    CASE name = "21_1.csv" -> 1
      [] name = "5_5.csv" -> 2
      [] name = "21_2.csv" -> 2
      [] name = "21_3.csv" -> 3

\* the run has ended on a row of the file name that does not convert
RowFailure(name) ==
    /\ pc \in {"raised", "failed"}
    /\ exc[1].what = "row"
    /\ exc[1].file = name

C13_ReportsRowFromOne ==
    \A name \in BadRowNames :
        RowFailure(name) => exc[1].line_num = FailingRow(name)

(***************************************************************************)
(* C13 as amended.  A row-level conversion failure reports the position of *)
(* the failing row counted from 2 at the first data row (the k-th data row *)
(* is reported as k + 1, blank lines not counted), together with the name  *)
(* of the file.                                                            *)
(***************************************************************************)
C13_ReportsRowFromTwo ==
    /\ \A name \in BadRowNames :
          RowFailure(name) => exc[1].line_num = FailingRow(name) + 1
    /\ \A m \in DOMAIN files :
          (files[m][1] \in BadRowNames /\ Noted("processing", files[m][1]))
              => RowFailure(files[m][1])

\* the run ended on 21_2.csv, whose second data row follows a blank line
C13_Witness == RowFailure("21_2.csv") /\ exc[1].line_num = 3

(***************************************************************************)
(* C14.  Parsing is all or nothing per file: a file reaches the load only  *)
(* with its header naming the six required columns and every data row      *)
(* converted, and then with one row per data row; a file that lacks a      *)
(* required column fails on its columns, whatever its rows are; a file     *)
(* with a row that does not convert fails on that row; and of a file that  *)
(* failed no row is in the batch, in the transaction or in the store.      *)
(***************************************************************************)
\* the files that lack a required column, by hand
BadHeaderNames == {"22_1.csv", "22_2.csv", "22_3.csv", "22_4.csv"}

\* the number of data rows of the files that parse, by hand
DataRows(name) ==
    CASE name = "3_2.csv" -> 1
      [] name = "21_4.csv" -> 1

\* no row of the file name is in the batch, the transaction or the store
NoRowOf(name) ==
    /\ \A k \in DOMAIN rows : rows[k][9] # name
    /\ NoRows(RowsOf(txn, name))
    /\ NoRows(LoadedBy(name))

\* the note that follows the announcement of the file name says n rows
RowsNoted(name, n) ==
    \E k \in DOMAIN out :
        /\ out[k][1] = "processing"
        /\ out[k][2] = name
        /\ k < Len(out)
        /\ out[k + 1] = <<"rows", n>>

C14_ParseAllOrNothing ==
    \A m \in DOMAIN files :
        LET name == files[m][1]
        IN  Noted("processing", name) =>
                IF name \in BadHeaderNames
                THEN /\ pc \in {"raised", "failed"}
                     /\ exc[1].what = "columns"
                     /\ exc[1].file = name
                     /\ NoRowOf(name)
                     /\ name \in data_dir
                ELSE IF name \in BadRowNames
                THEN /\ RowFailure(name)
                     /\ NoRowOf(name)
                     /\ name \in data_dir
                ELSE RowsNoted(name, DataRows(name))

\* the run ended on the bad second row of 5_5.csv after it had loaded and
\* moved another file
C14_Witness ==
    /\ RowFailure("5_5.csv")
    /\ pos = 2
    /\ Noted("moved", files[1][1])
    /\ ~NoRows(sales (-) sales0)

(***************************************************************************)
(* C15.  A file that failed stays where it was: in every state after the   *)
(* parsing of a file has failed (the run ends there) or its load has       *)
(* failed (an insert or the commit was refused), the file is in the data   *)
(* directory, is not in the processed area, and no row of it has been      *)
(* persisted by the run.                                                   *)
(***************************************************************************)
\* the run has ended on the parse failure of the file name
ParseFailed(name) ==
    /\ pc \in {"raised", "failed"}
    /\ exc[1].type = "ValueError"
    /\ exc[1].file = name

C15_FailedFileStaysInPlace ==
    \A name \in dir0 :
        (ParseFailed(name) \/ LoadFailed(name)) =>
            /\ name \in data_dir
            /\ name \notin processed
            /\ NoRows(LoadedBy(name))
            /\ ~Noted("moved", name)

\* the run has ended on a parse failure after the commit of a file with
\* rows had been refused, in a directory that already has a processed area
C15_Witness ==
    /\ pc = "failed"
    /\ \E name \in UnparsableNames : ParseFailed(name)
    /\ \E name \in {"3_2.csv", "07_10.csv"} : ErrorNoted(name, {"commit"})
    /\ exists0

(***************************************************************************)
(* C16 as claimed.  One file is fully discovered, parsed, loaded and       *)
(* archived before the next file begins any of these steps: no two files   *)
(* have both started (been discovered and accepted) with neither of them   *)
(* in a terminal state (parse failed, load failed, archived, archive       *)
(* failed).                                                                *)
(***************************************************************************)
\* the m-th file has reached a terminal state
Terminal(m) ==
    \/ Noted("moved", files[m][1])
    \/ Noted("error", files[m][1])
    \/ ParseFailed(files[m][1])

C16_OneFileStartedAtATime ==
    \A a, b \in DOMAIN files :
        a # b => Terminal(a) \/ Terminal(b)

(***************************************************************************)
(* C16 as amended.  All accepted files are discovered together, before     *)
(* the first is parsed; from there processing is strictly sequential: a    *)
(* file is parsed only after every file before it in the list has been     *)
(* fully dealt with (archived, failed at load or archival, or, in a dry    *)
(* run, parsed and reported), no file after the current one has been       *)
(* touched, and every outcome printed belongs to the file announced last.  *)
(***************************************************************************)
\* the run has begun to parse the m-th file
Begun(m) == Noted("processing", files[m][1])

\* the run is through with the m-th file
Finished(m) ==
    \/ Terminal(m)
    \/ dry_run /\ m < pos

\* the file that the last "processing" note before the k-th note announces
AnnouncedBefore(k) ==
    out[CHOOSE j \in 1..k :
            /\ out[j][1] = "processing"
            /\ \A h \in (j + 1)..k : out[h][1] # "processing"][2]

C16_ParsedLoadedArchivedInTurn ==
    /\ \A m \in DOMAIN files :
          /\ Begun(m) => \A j \in 1..(m - 1) : Finished(j)
          /\ m > pos => Untouched(files[m][1])
          /\ (Begun(m) /\ ~Finished(m)) => m = pos
    /\ \A k \in DOMAIN out :
          out[k][1] \in {"moved", "error"} => AnnouncedBefore(k) = out[k][2]

\* the third file is being loaded, the first was archived, the load of the
\* second failed
C16_Witness ==
    /\ Len(files) = 3
    /\ pos = 3
    /\ pc = "insert"
    /\ Noted("moved", files[1][1])
    /\ ErrorNoted(files[2][1], LoadErrors)

(***************************************************************************)
(* C17.  A file that a run has archived is never discovered by a later     *)
(* run: it is in the processed area, which discovery passes over, and not  *)
(* in the data directory.  So a run that follows a run in which every      *)
(* accepted file was archived finds nothing to process, persists no record *)
(* and moves no file.                                                      *)
(***************************************************************************)
\* the run before this one returned with every file it found archived
LastRunArchivedAll ==
    /\ earlier # <<>>
    /\ LastRun.pc = "exit"
    /\ ~LastRun.dry_run
    /\ LastRun.found \subseteq LastRun.moved

C17_ArchivedNeverRediscovered ==
    /\ \A k \in DOMAIN earlier :
          \A name \in earlier[k].moved :
              /\ name \in processed
              /\ name \notin data_dir
              /\ IndexOf(name) = 0
              /\ ~Noted("processing", name)
              /\ ~Noted("skip", name)
    /\ ~Noted("skip", PROCESSED)
    /\ LastRunArchivedAll =>
          /\ files = <<>>
          /\ sales = sales0
          /\ txn = EmptyBag
          /\ data_dir = dir0
          /\ \A k \in DOMAIN out : out[k][1] \notin {"processing", "moved"}
          /\ Discovered => \E k \in DOMAIN out : out[k] = <<"nothing to process">>
          /\ pc \notin {"raised", "failed"}

\* a normal run has returned with nothing to process after a run that had
\* archived two files
C17_Witness ==
    /\ LastRunArchivedAll
    /\ Cardinality(LastRun.moved) = 2
    /\ ~dry_run
    /\ pc = "exit"
    /\ processed = LastRun.moved

(***************************************************************************)
(* C18.  Duplicates without a crash: when in the run before this one the   *)
(* move of a file failed after its commit (the error was caught and        *)
(* printed), the file is still in the data directory with its records      *)
(* committed, this run finds it again, and once this run has committed it  *)
(* the store holds each of its records twice.                              *)
(***************************************************************************)
\* the run before this one committed the file name and failed to move it
ArchiveFailedBefore(name) ==
    /\ earlier # <<>>
    /\ name \in LastRun.archive_failed

C18_ArchiveFailureThenRerunDuplicates ==
    \A name \in AcceptedNames :
        ArchiveFailedBefore(name) =>
            /\ name \in dir0
            /\ name \notin LastRun.moved
            /\ Discovered => IndexOf(name) > 0
            /\ IF Committed(name)
               THEN LoadedSinceLastRun(name) = Twice(ExpectedRows(name))
               ELSE LoadedSinceLastRun(name) = ExpectedRows(name)
            /\ (pc = "exit" /\ ~dry_run /\ ~ErrorNoted(name, LoadErrors))
                  => Committed(name)

\* the move of 07_10.csv failed in a run that returned normally, and this
\* run has loaded the file again and moved it: its records are there twice
C18_Witness ==
    /\ ArchiveFailedBefore("07_10.csv")
    /\ LastRun.pc = "exit"
    /\ Noted("moved", "07_10.csv")
    /\ \A r \in DOMAIN ExpectedRows("07_10.csv") : CopiesIn(r, sales) = 2

(***************************************************************************)
(* C19.  An accepted file with a valid header and no data row (4_4.csv)    *)
(* parses to an empty batch; in a normal run the batch goes through the    *)
(* load like any other: no insert is executed, so none can fail, the       *)
(* transaction is committed and the file is moved to the processed area,   *)
(* with no record persisted.  The file is neither skipped nor reported as  *)
(* an error unless the commit or the move itself fails.                    *)
(***************************************************************************)
\* the run is at the file name
At(name) == pos \in DOMAIN files /\ files[pos][1] = name

C19_EmptyBatchIsLoaded ==
    Noted("processing", "4_4.csv") =>
        /\ RowsNoted("4_4.csv", 0)
        /\ ~ParseFailed("4_4.csv")
        /\ ~Noted("skip", "4_4.csv")
        /\ NoRows(LoadedBy("4_4.csv"))
        /\ ~ErrorNoted("4_4.csv", {"insert"})
        /\ At("4_4.csv") =>
              /\ pc # "rollback"
              /\ pc = "insert" => ~PagesLeft /\ txn = EmptyBag
              /\ pc = "except" => exc[1].what \in {"commit", "mkdir", "rename"}
        /\ (~dry_run /\ ~At("4_4.csv")) =>
              \/ Noted("moved", "4_4.csv")
              \/ ErrorNoted("4_4.csv", {"commit", "mkdir", "rename"})
        /\ Noted("moved", "4_4.csv") =>
              /\ "4_4.csv" \in processed
              /\ "4_4.csv" \notin data_dir
              /\ ~Noted("error", "4_4.csv")

\* a normal run over 4_4.csv and a file with rows has returned: both files
\* are in the processed area and only the rows of the other are new
C19_Witness ==
    /\ pc = "exit"
    /\ dir0 = {"4_4.csv", "3_2.csv"}
    /\ processed = dir0
    /\ sales (-) sales0 = ExpectedRows("3_2.csv")

(***************************************************************************)
(* C20.  When every call returns, every run ends; within the run each      *)
(* accepted file is announced and parsed at most once and gets at most one *)
(* outcome of its load (no retry); and when a normal run returns, every    *)
(* accepted file of the directory is in exactly one of the states          *)
(* archived, load failed, archive failed.                                  *)
(***************************************************************************)
\* how many notes <<tag, name, ...>> print() has written
NotesOf(tag, name) ==
    Cardinality({k \in DOMAIN out : out[k][1] = tag /\ out[k][2] = name})

Archived(name) ==
    /\ Noted("moved", name)
    /\ name \in processed
    /\ name \notin data_dir
    /\ LoadedBy(name) = ExpectedRows(name)

LoadFailedInPlace(name) ==
    /\ ErrorNoted(name, LoadErrors)
    /\ name \in data_dir
    /\ name \notin processed
    /\ NoRows(LoadedBy(name))

ArchiveFailedInPlace(name) ==
    /\ ErrorNoted(name, ArchiveErrors)
    /\ StaysLoadedInPlace(name)

\* the number of the three terminal states the file is in
TerminalStates(name) ==
    Cardinality({t \in {"archived", "load_failed", "archive_failed"} :
        \/ t = "archived" /\ Archived(name)
        \/ t = "load_failed" /\ LoadFailedInPlace(name)
        \/ t = "archive_failed" /\ ArchiveFailedInPlace(name)})

EachFileOnce ==
    /\ \A name \in dir0 \cap AcceptedNames :
          /\ NotesOf("processing", name) <= 1
          /\ NotesOf("moved", name) + NotesOf("error", name) <= 1
          /\ NotesOf("moved", name) + NotesOf("error", name)
                 <= NotesOf("processing", name)
          /\ \/ NoRows(LoadedBy(name))
             \/ LoadedBy(name) = ExpectedRows(name)
    /\ \A a, b \in DOMAIN files : a # b => files[a][1] # files[b][1]
    /\ (pc = "exit" /\ ~dry_run) =>
          \A name \in dir0 \cap AcceptedNames : TerminalStates(name) = 1

Ends == pc \in {"exit", "failed"}

C20_EndsWithEachFileOnce == []EachFileOnce /\ <>Ends

\* a normal run has returned with one file archived, one whose load failed
\* and one whose move failed
C20_Witness ==
    /\ pc = "exit"
    /\ \E a, b, c \in dir0 :
          /\ Archived(a)
          /\ LoadFailedInPlace(b)
          /\ ArchiveFailedInPlace(c)

=============================================================================
